---- MODULE Spec2Model ----
(***************************************************************************)
(* Model of fetch_github_standards.py: module import (logging.basicConfig), *)
(* log_message, fetch_standards and the __main__ block, one action per      *)
(* statement.  The file system (logs/ and the log file) outlives a process; *)
(* everything else is per-process state.                                    *)
(*                                                                          *)
(* A log record is [level, msg]; the asctime field of the format string is  *)
(* not modelled.  A message is a sequence of string parts, a body is a      *)
(* sequence of one-character strings.  stdout accepts every text.           *)
(***************************************************************************)
EXTENDS Integers, Sequences, FiniteSets, TLC

VARIABLES
    pc,          \* position of the process in the script
    isMain,      \* __name__ == "__main__" (run as a script) or imported
    dirExists,   \* file system: logs/ exists
    logfile,     \* file system: records of logs/fetch_github_standards.log
    handlerOpen, \* the root logger holds an open FileHandler
    console,     \* lines written to stdout by this process
    outcome,     \* what requests.get produced in this process
    response,    \* local `response` of fetch_standards
    exc,         \* exception in flight ("" when none)
    content,     \* `content` of the __main__ block (value returned by fetch)
    getCount,    \* number of GET requests issued by this process
    runBase,     \* Len(logfile) when this process started
    fetchBase,   \* Len(logfile) when fetch_standards was entered
    exitStatus,  \* -1 while running, 0 normal exit, 1 unhandled exception
    runs,        \* number of processes started so far
    lastCall     \* the last log_message call made by an importing caller

vars == <<pc, isMain, dirExists, logfile, handlerOpen, console, outcome,
          response, exc, content, getCount, runBase, fetchBase, exitStatus,
          runs, lastCall>>

----------------------------------------------------------------------------
(* Bounds *)

MaxRuns == 2
MaxBodyLen == 502
NumSeeds == 2
MaxCalls == 3

(* Program constants *)

PreviewLen == 500
RootLevel == 20

----------------------------------------------------------------------------
(* Values *)

Min(a, b) == IF a <= b THEN a ELSE b

None == [isNone |-> TRUE, text |-> <<>>]
Str(t) == [isNone |-> FALSE, text |-> t]

\* variant: the `if content:` guard lets every value through
Truthy_NoCheck(v) == TRUE

\* Python truthiness of an Optional[str]: None and "" are both falsy.
Truthy(v) == ~v.isNone /\ Len(v.text) > 0

\* content[:n]
Slice(t, n) == SubSeq(t, 1, Min(Len(t), n))

Alphabet == <<"#", "a", "\n">>
BodyOf(L, s) == [i \in 1..L |-> Alphabet[((i * s) % 3) + 1]]
BodyLens == {0, 1, PreviewLen - 1, PreviewLen, PreviewLen + 1, MaxBodyLen}
Bodies == {BodyOf(L, s) : L \in BodyLens, s \in 1..NumSeeds}

Statuses == {200, 204, 304, 404, 500}
RequestErrors == {"ConnectionError", "Timeout"}

NoOutcome == [kind |-> "none", status |-> 0, text |-> <<>>, err |-> ""]
Outcomes ==
    {[kind |-> "response", status |-> s, text |-> b, err |-> ""] :
        s \in Statuses, b \in Bodies}
    \cup {[kind |-> "exception", status |-> 0, text |-> <<>>, err |-> e] :
        e \in RequestErrors}

NoResponse == [present |-> FALSE, status |-> 0, text |-> <<>>]

MsgStarted == <<"Script started">>
MsgCompleted == <<"Script completed">>
MsgSuccess == <<"Successfully fetched standards">>
MsgContent == <<"Standards content (first 500 chars):">>
Hint == ". Ensure the URL is correct and public."
MsgError(e) == <<"Error fetching standards: ", e, Hint>>

OldRecord == [level |-> "INFO", msg |-> <<"Script completed">>]

----------------------------------------------------------------------------
(* log_message *)

LevelInputs == {"INFO", "WARNING", "ERROR", "DEBUG", "CRITICAL", "info", "TRACE"}
ApiMessages == {<<"m1">>, <<"m2">>}

\* str.lower() on the severities above
Lower(level) ==
    CASE level = "INFO" -> "info"
      [] level = "WARNING" -> "warning"
      [] level = "ERROR" -> "error"
      [] level = "DEBUG" -> "debug"
      [] level = "CRITICAL" -> "critical"
      [] level = "TRACE" -> "trace"
      [] OTHER -> level

\* colors.get(level, Fore.WHITE)
ColorOf(level) ==
    CASE level = "INFO" -> "GREEN"
      [] level = "WARNING" -> "YELLOW"
      [] level = "ERROR" -> "RED"
      [] OTHER -> "WHITE"

\* the module-level functions of `logging` that getattr can find
LoggingFunctions == {"debug", "info", "warning", "error", "critical"}
HasLoggingAttr(name) == name \in LoggingFunctions

LevelNo(name) ==
    CASE name = "debug" -> 10
      [] name = "info" -> 20
      [] name = "warning" -> 30
      [] name = "error" -> 40
      [] name = "critical" -> 50
      [] OTHER -> 0

LevelName(name) ==
    CASE name = "debug" -> "DEBUG"
      [] name = "info" -> "INFO"
      [] name = "warning" -> "WARNING"
      [] name = "error" -> "ERROR"
      [] name = "critical" -> "CRITICAL"
      [] OTHER -> "NOTSET"

\* the handler's write: the record is appended to the file
Emit(file, rec) == Append(file, rec)

\* log_message(message, level): the console line is printed first; then the
\* logging function named level.lower() is looked up (AttributeError when
\* there is none) and called; the root logger drops records below its level.
LogMessage(message, level) ==
    LET name == Lower(level) IN
    [console |-> Append(console, [color |-> ColorOf(level),
                                  text |-> <<"--> ">> \o message]),
     logfile |-> IF HasLoggingAttr(name) /\ LevelNo(name) >= RootLevel
                 THEN Emit(logfile, [level |-> LevelName(name), msg |-> message])
                 ELSE logfile,
     raised |-> ~HasLoggingAttr(name)]

----------------------------------------------------------------------------
(* Initial states *)

InitCommon ==
    /\ pc = "import"
    /\ dirExists \in BOOLEAN
    /\ logfile \in (IF dirExists THEN {<<>>, <<OldRecord>>} ELSE {<<>>})
    /\ handlerOpen = FALSE
    /\ console = <<>>
    /\ outcome = NoOutcome
    /\ response = NoResponse
    /\ exc = ""
    /\ content = None
    /\ getCount = 0
    /\ runBase = Len(logfile)
    /\ fetchBase = Len(logfile)
    /\ exitStatus = -1
    /\ runs = 1
    /\ lastCall = [n |-> 0, msg |-> <<>>, level |-> "", raised |-> FALSE]

Init == InitCommon /\ isMain = TRUE
InitLib == InitCommon /\ isMain = FALSE

----------------------------------------------------------------------------
(* Module import *)

\* variant: the file is opened with filemode "w"
OpenLog_Truncate(file) == <<>>

\* open(filename, "a") of the FileHandler: the existing records are kept
OpenLog(file) == file

\* logging.basicConfig(filename=...): the FileHandler opens the file at once,
\* which fails with FileNotFoundError when logs/ does not exist.
BasicConfig ==
    /\ pc = "import"
    /\ IF dirExists
       THEN /\ handlerOpen' = TRUE
            /\ logfile' = OpenLog(logfile)
            /\ pc' = "name_check"
            /\ UNCHANGED <<exc, exitStatus>>
       ELSE /\ exc' = "FileNotFoundError"
            /\ pc' = "crashed"
            /\ exitStatus' = 1
            /\ UNCHANGED <<handlerOpen, logfile>>
    /\ UNCHANGED <<isMain, dirExists, console, outcome, response, content,
                   getCount, runBase, fetchBase, runs, lastCall>>

\* if __name__ == "__main__":
NameCheck ==
    /\ pc = "name_check"
    /\ pc' = IF isMain THEN "makedirs" ELSE "imported"
    /\ UNCHANGED <<isMain, dirExists, logfile, handlerOpen, console, outcome,
                   response, exc, content, getCount, runBase, fetchBase,
                   exitStatus, runs, lastCall>>

----------------------------------------------------------------------------
(* The __main__ block and fetch_standards *)

\* os.makedirs("logs", exist_ok=True)
Makedirs ==
    /\ pc = "makedirs"
    /\ dirExists' = TRUE
    /\ pc' = "log_started"
    /\ UNCHANGED <<isMain, logfile, handlerOpen, console, outcome, response,
                   exc, content, getCount, runBase, fetchBase, exitStatus,
                   runs, lastCall>>

\* log_message("Script started"); url = ...; entry of fetch_standards(url)
LogStarted ==
    /\ pc = "log_started"
    /\ LET r == LogMessage(MsgStarted, "INFO") IN
       /\ console' = r.console
       /\ logfile' = r.logfile
       /\ fetchBase' = Len(r.logfile)
       /\ IF r.raised
          THEN pc' = "crashed" /\ exitStatus' = 1 /\ exc' = "AttributeError"
          ELSE pc' = "get" /\ UNCHANGED <<exitStatus, exc>>
    /\ UNCHANGED <<isMain, dirExists, handlerOpen, outcome, response, content,
                   getCount, runBase, runs, lastCall>>

\* response = requests.get(url): one request, which yields a response or
\* raises (connection error, timeout)
Get ==
    /\ pc = "get"
    /\ \E o \in Outcomes :
        /\ outcome' = o
        /\ IF o.kind = "response"
           THEN /\ response' = [present |-> TRUE, status |-> o.status, text |-> o.text]
                /\ pc' = "raise_for_status"
                /\ UNCHANGED exc
           ELSE /\ exc' = o.err
                /\ pc' = "except"
                /\ UNCHANGED response
    /\ getCount' = getCount + 1
    /\ UNCHANGED <<isMain, dirExists, logfile, handlerOpen, console, content,
                   runBase, fetchBase, exitStatus, runs, lastCall>>

\* variant: only 5xx raises
RaisesForStatus_ServerOnly(status) == 500 <= status /\ status < 600

\* Response.raise_for_status() raises HTTPError for 4xx and 5xx only
RaisesForStatus(status) == 400 <= status /\ status < 600

HTTPError(status) ==
    IF status < 500 THEN "HTTPError: Client Error" ELSE "HTTPError: Server Error"

\* response.raise_for_status()
RaiseForStatus ==
    /\ pc = "raise_for_status"
    /\ IF RaisesForStatus(response.status)
       THEN exc' = HTTPError(response.status) /\ pc' = "except"
       ELSE pc' = "log_success" /\ UNCHANGED exc
    /\ UNCHANGED <<isMain, dirExists, logfile, handlerOpen, console, outcome,
                   response, content, getCount, runBase, fetchBase, exitStatus,
                   runs, lastCall>>

\* log_message("Successfully fetched standards"), inside the try block
LogSuccess ==
    /\ pc = "log_success"
    /\ LET r == LogMessage(MsgSuccess, "INFO") IN
       /\ console' = r.console
       /\ logfile' = r.logfile
       /\ IF r.raised
          THEN pc' = "except" /\ exc' = "AttributeError"
          ELSE pc' = "return_text" /\ UNCHANGED exc
    /\ UNCHANGED <<isMain, dirExists, handlerOpen, outcome, response, content,
                   getCount, runBase, fetchBase, exitStatus, runs, lastCall>>

\* variant: the body is cut to the preview length inside fetch_standards
ReturnValue_Truncated(resp) == Str(Slice(resp.text, PreviewLen))

\* the value of `return response.text`
ReturnValue(resp) == Str(resp.text)

\* return response.text; content = <returned value>
ReturnText ==
    /\ pc = "return_text"
    /\ content' = ReturnValue(response)
    /\ pc' = "if_content"
    /\ UNCHANGED <<isMain, dirExists, logfile, handlerOpen, console, outcome,
                   response, exc, getCount, runBase, fetchBase, exitStatus,
                   runs, lastCall>>

\* variant: the handler logs and re-raises
Except_Reraise ==
    /\ pc = "except"
    /\ LET r == LogMessage(MsgError(exc), "ERROR") IN
       /\ console' = r.console
       /\ logfile' = r.logfile
    /\ pc' = "crashed"
    /\ exitStatus' = 1
    /\ UNCHANGED <<isMain, dirExists, handlerOpen, outcome, response, exc,
                   content, getCount, runBase, fetchBase, runs, lastCall>>

\* variant: the handler logs and tries the request again
Except_Retry ==
    /\ pc = "except"
    /\ LET r == LogMessage(MsgError(exc), "ERROR") IN
       /\ console' = r.console
       /\ logfile' = r.logfile
    /\ pc' = "get"
    /\ exc' = ""
    /\ UNCHANGED <<isMain, dirExists, handlerOpen, outcome, response, content,
                   getCount, runBase, fetchBase, exitStatus, runs, lastCall>>

\* except Exception as e: log_message(f"Error ...{e}. Ensure ...", "ERROR");
\* return None.  An exception of log_message itself leaves fetch_standards.
Except ==
    /\ pc = "except"
    /\ LET r == LogMessage(MsgError(exc), "ERROR") IN
       /\ console' = r.console
       /\ logfile' = r.logfile
       /\ IF r.raised
          THEN /\ pc' = "crashed" /\ exitStatus' = 1 /\ exc' = "AttributeError"
               /\ UNCHANGED content
          ELSE /\ pc' = "if_content" /\ exc' = "" /\ content' = None
               /\ UNCHANGED exitStatus
    /\ UNCHANGED <<isMain, dirExists, handlerOpen, outcome, response, getCount,
                   runBase, fetchBase, runs, lastCall>>

\* if content:
IfContent ==
    /\ pc = "if_content"
    /\ pc' = IF Truthy(content) THEN "log_content" ELSE "log_completed"
    /\ UNCHANGED <<isMain, dirExists, logfile, handlerOpen, console, outcome,
                   response, exc, content, getCount, runBase, fetchBase,
                   exitStatus, runs, lastCall>>

\* log_message("Standards content (first 500 chars):")
LogContent ==
    /\ pc = "log_content"
    /\ LET r == LogMessage(MsgContent, "INFO") IN
       /\ console' = r.console
       /\ logfile' = r.logfile
       /\ IF r.raised
          THEN pc' = "crashed" /\ exitStatus' = 1 /\ exc' = "AttributeError"
          ELSE pc' = "print_preview" /\ UNCHANGED <<exitStatus, exc>>
    /\ UNCHANGED <<isMain, dirExists, handlerOpen, outcome, response, content,
                   getCount, runBase, fetchBase, runs, lastCall>>

\* the line written by print(content[:500])
Preview(v) == [color |-> "NONE", text |-> Slice(v.text, PreviewLen)]

\* print(content[:500])
PrintPreview ==
    /\ pc = "print_preview"
    /\ console' = Append(console, Preview(content))
    /\ pc' = "log_completed"
    /\ UNCHANGED <<isMain, dirExists, logfile, handlerOpen, outcome, response,
                   exc, content, getCount, runBase, fetchBase, exitStatus,
                   runs, lastCall>>

\* log_message("Script completed"); end of the script
LogCompleted ==
    /\ pc = "log_completed"
    /\ LET r == LogMessage(MsgCompleted, "INFO") IN
       /\ console' = r.console
       /\ logfile' = r.logfile
       /\ IF r.raised
          THEN pc' = "crashed" /\ exitStatus' = 1 /\ exc' = "AttributeError"
          ELSE pc' = "done" /\ exitStatus' = 0 /\ UNCHANGED exc
    /\ UNCHANGED <<isMain, dirExists, handlerOpen, outcome, response, content,
                   getCount, runBase, fetchBase, runs, lastCall>>

\* python fetch_github_standards.py is started again: a new process over the
\* same file system
Rerun ==
    /\ pc \in {"done", "crashed"}
    /\ runs < MaxRuns
    /\ runs' = runs + 1
    /\ pc' = "import"
    /\ handlerOpen' = FALSE
    /\ console' = <<>>
    /\ outcome' = NoOutcome
    /\ response' = NoResponse
    /\ exc' = ""
    /\ content' = None
    /\ getCount' = 0
    /\ runBase' = Len(logfile)
    /\ fetchBase' = Len(logfile)
    /\ exitStatus' = -1
    /\ lastCall' = [n |-> 0, msg |-> <<>>, level |-> "", raised |-> FALSE]
    /\ UNCHANGED <<isMain, dirExists, logfile>>

\* a caller that imported the module calls log_message(message, level); an
\* exception of the call is not caught by the caller
ApiLog ==
    /\ pc = "imported"
    /\ lastCall.n < MaxCalls
    /\ \E m \in ApiMessages, l \in LevelInputs :
        LET r == LogMessage(m, l) IN
        /\ console' = r.console
        /\ logfile' = r.logfile
        /\ lastCall' = [n |-> lastCall.n + 1, msg |-> m, level |-> l,
                        raised |-> r.raised]
        /\ IF r.raised
           THEN pc' = "crashed" /\ exitStatus' = 1 /\ exc' = "AttributeError"
           ELSE UNCHANGED <<pc, exitStatus, exc>>
    /\ UNCHANGED <<isMain, dirExists, handlerOpen, outcome, response, content,
                   getCount, runBase, fetchBase, runs>>

----------------------------------------------------------------------------
(* Specifications *)

Step ==
    \/ BasicConfig
    \/ NameCheck
    \/ Makedirs
    \/ LogStarted
    \/ Get
    \/ RaiseForStatus
    \/ LogSuccess
    \/ ReturnText
    \/ Except
    \/ IfContent
    \/ LogContent
    \/ PrintPreview
    \/ LogCompleted

Next == Step \/ Rerun

\* the script run as a program, possibly several times
Spec == Init /\ [][Next]_vars

\* the interpreter keeps executing statements, and the blocking GET returns
\* or raises
FairSpec == Spec /\ WF_vars(Step)

NextLib ==
    \/ BasicConfig
    \/ NameCheck
    \/ ApiLog

\* the module imported by a caller that uses log_message
LibSpec == InitLib /\ [][NextLib]_vars

----------------------------------------------------------------------------
(* Observations used by the properties *)

Rec(level, msg) == [level |-> level, msg |-> msg]

\* records written by the current process, and by its fetch_standards call
RunRecords == SubSeq(logfile, runBase + 1, Len(logfile))
FetchRecords == SubSeq(logfile, fetchBase + 1, Len(logfile))

Contains(msg, part) == \E i \in DOMAIN msg : msg[i] = part

IsOutcomeRecord(r) == r.msg = MsgSuccess \/ r.level = "ERROR"

PreviewLines == {i \in DOMAIN console : console[i].color = "NONE"}
ContentRecords == {i \in DOMAIN RunRecords : RunRecords[i].msg = MsgContent}

Got200 == outcome.kind = "response" /\ outcome.status = 200
Is2xx(status) == 200 <= status /\ status <= 299
RequestRaised == outcome.kind = "exception"
GotNon2xx == outcome.kind = "response" /\ ~Is2xx(outcome.status)
Got4xx5xx == outcome.kind = "response" /\ outcome.status >= 400

\* fetch_standards has just returned to the __main__ block
FetchReturned == pc = "if_content"

FailureLogged ==
    /\ content = None
    /\ Len(FetchRecords) = 1
    /\ FetchRecords[1].level = "ERROR"
    /\ Contains(FetchRecords[1].msg, Hint)
    /\ FetchRecords[1].msg # MsgSuccess

----------------------------------------------------------------------------
(* Properties *)

\* C1: a request that completes with HTTP 200 and body B makes fetch return
\* exactly B (also the empty B) and write exactly one record, the INFO record
\* 'Successfully fetched standards', and no ERROR record; the call does not
\* raise.
C1_SuccessReturnsBody ==
    Got200 =>
        /\ pc # "crashed"
        /\ pc # "except"
        /\ FetchReturned =>
            /\ content = Str(outcome.text)
            /\ FetchRecords = <<Rec("INFO", MsgSuccess)>>

C1_Witness ==
    /\ FetchReturned
    /\ Got200
    /\ outcome.text = <<>>
    /\ ~content.isNone

C3_PreviewIffResult ==
    pc = "done" =>
        /\ ~content.isNone <=> ContentRecords # {}
        /\ ~content.isNone <=> PreviewLines # {}

\* C4: truncation law: for a successful body of any length L >= 0 the run
\* prints one preview line, which is the first min(L, 500) characters of the
\* body, unmodified.
C4_TruncationLaw ==
    (pc = "done" /\ outcome.kind = "response" /\ ~content.isNone) =>
        /\ Cardinality(PreviewLines) = 1
        /\ \A i \in PreviewLines :
            /\ Len(console[i].text) = Min(Len(outcome.text), PreviewLen)
            /\ \A k \in 1..Len(console[i].text) :
                console[i].text[k] = outcome.text[k]

C6_DirectoryFirst ==
    /\ handlerOpen => pc \notin {"name_check", "makedirs"}
    /\ ~(pc = "crashed" /\ exc = "FileNotFoundError")

\* C7: a run issues exactly one GET, for the success and for the failure
\* outcome: none before the fetch step, one from then on, never a second.
C7_ExactlyOneGet ==
    /\ getCount <= 1
    /\ outcome.kind # "none" => getCount = 1
    /\ pc \in {"raise_for_status", "log_success", "return_text", "if_content",
               "log_content", "print_preview", "log_completed", "done"}
        => getCount = 1

C7_Witness ==
    /\ pc = "done"
    /\ RequestRaised
    /\ getCount = 1

\* C8: log_message never raises while the sink is writable: INFO, WARNING and
\* ERROR are written in green, yellow and red, any other severity in white.
C8_LogNeverFails ==
    lastCall.n > 0 =>
        /\ ~lastCall.raised
        /\ pc # "crashed"
        /\ console[Len(console)].color =
            (CASE lastCall.level = "INFO" -> "GREEN"
               [] lastCall.level = "WARNING" -> "YELLOW"
               [] lastCall.level = "ERROR" -> "RED"
               [] OTHER -> "WHITE")

\* C9: the log is append-only: no step removes, reorders or changes a record
\* already written, and a log_message call with severity INFO, WARNING or ERROR
\* adds exactly one record, with that severity and message, and exactly one
\* console line.
C9_AppendOnly ==
    [][/\ Len(logfile') >= Len(logfile)
       /\ SubSeq(logfile', 1, Len(logfile)) = logfile
       /\ (lastCall'.n # lastCall.n
             /\ lastCall'.level \in {"INFO", "WARNING", "ERROR"})
            => /\ logfile' = Append(logfile, Rec(lastCall'.level, lastCall'.msg))
               /\ Len(console') = Len(console) + 1
               /\ ~lastCall'.raised]_vars

C9_Witness ==
    /\ lastCall.n = 2
    /\ lastCall.level = "WARNING"
    /\ Len(logfile) = 3
    /\ logfile[1] = OldRecord
    /\ logfile[3] = Rec("WARNING", lastCall.msg)

\* C10: the records of a finished run start with 'Script started' and end with
\* 'Script completed'; exactly one fetch-outcome record (the success record or
\* the ERROR record) lies between them; the 'Standards content' record, when
\* present, directly follows the success record, never occurs with the ERROR
\* record, and its console line precedes the preview.
C10_RecordOrder ==
    /\ \A i \in PreviewLines :
        i > 1 /\ console[i - 1].text = <<"--> ">> \o MsgContent
    /\ PreviewLines # {} => ContentRecords # {}
    /\ pc = "done" =>
        LET R == RunRecords IN
        /\ Len(R) >= 3
        /\ R[1] = Rec("INFO", MsgStarted)
        /\ R[Len(R)] = Rec("INFO", MsgCompleted)
        /\ {i \in DOMAIN R : R[i].msg = MsgStarted} = {1}
        /\ {i \in DOMAIN R : R[i].msg = MsgCompleted} = {Len(R)}
        /\ {i \in DOMAIN R : IsOutcomeRecord(R[i])} = {2}
        /\ ~(R[2].msg = MsgSuccess /\ R[2].level = "ERROR")
        /\ \A i \in ContentRecords :
            /\ i = 3
            /\ R[2] = Rec("INFO", MsgSuccess)
            /\ \A k \in DOMAIN R : R[k].level # "ERROR"

C10_Witness ==
    /\ pc = "done"
    /\ Len(RunRecords) = 4
    /\ ContentRecords = {3}
    /\ PreviewLines # {}

====
